---- MODULE Spec2Model ----
(***************************************************************************)
(* A model of whisper-webhook (src/app.py): the segment bucketing of       *)
(* create_segments and the two POST handlers that stage the audio in a     *)
(* temporary file, call the transcription service and segment its answer.  *)
(*                                                                         *)
(* Time.  Python computes on floats.  The model computes on a fixed-point  *)
(* grid: an input time is an integer number of ticks, a tick being         *)
(* 1/TicksPerSecond of a second.  With TicksPerSecond = 8 every value of   *)
(* the grid is a dyadic rational that a double holds exactly, so i * d,    *)
(* min, the comparisons, end - start and int(total / d) are exact in       *)
(* Python too, and round(x, 2) is round-half-to-even on the exact value.   *)
(* The rounded output fields are integers counting hundredths of a second. *)
(*                                                                         *)
(* Text.  A string is a sequence of one-character strings; " " is the      *)
(* whitespace character.                                                   *)
(***************************************************************************)
EXTENDS Integers, Sequences, FiniteSets

\* ------------------------------------------------------------------ bounds

\* Resolution of the time grid: ticks per second.
TicksPerSecond == 8
\* Largest duration and largest word start time, in ticks.
MaxT == 3
\* Largest segment_duration, in ticks, of the segmenter's specification.
MaxSeg == 3
\* Longest word list of a transcript.
MaxWords == 2
\* Longest word (end - start), in ticks.
MaxWordLen == 1
\* Number of request slots; the requests of ConcSpec run concurrently.
NumReqs == 2
\* Largest |segment_duration|, in ticks, a request asks for.
MaxReqSeg == 2

\* round(x, 2): the number of decimal places kept is 2, i.e. hundredths.
Hundredths == 100
\* The default of segment_duration, in seconds.
DefaultSegmentSeconds == 4

\* ------------------------------------------------------------------- state

VARIABLES
    transcription,      \* create_segments: the transcript argument
    segment_duration,   \* create_segments: the width argument, in ticks
    segments,           \* create_segments: the returned list
    segPc,              \* "call" before create_segments ran, "returned" after
    OPENAI_API_KEY,     \* the module-level configuration read at start-up
    pc,                 \* per request: where its handler is
    request,            \* per request: the HTTP request it received
    frame,              \* per request: the handler's local variables
    upstream,           \* per request: what the transcription service answered
    sent,               \* per request: the payloads it posted upstream, in order
    response,           \* per request: the HTTP response it produced
    fs                  \* the temporary directory: file name -> content

segVars == <<transcription, segment_duration, segments, segPc>>

reqVars == <<OPENAI_API_KEY, pc, request, frame, upstream, sent, response, fs>>

vars == <<segVars, reqVars>>

\* ----------------------------------------------------------------- helpers

Range(s) == {s[i] : i \in DOMAIN s}

\* Python's min(a, b).
Min(a, b) == IF a <= b THEN a ELSE b

Abs(a) == IF a < 0 THEN -a ELSE a

\* int(a / b) for b # 0: the quotient truncated towards zero.
TruncDiv(a, b) ==
    LET q == Abs(a) \div Abs(b)
    IN  IF (a < 0) = (b < 0) THEN q ELSE -q

\* The integer nearest to p / q (q > 0), ties to the even one.
RoundHalfEven(p, q) ==
    LET f == p \div q
        r == p - q * f
    IN  IF 2 * r < q THEN f
        ELSE IF 2 * r > q THEN f + 1
        ELSE IF f % 2 = 0 THEN f ELSE f + 1

\* round(t, 2) of a time of t ticks, in hundredths of a second.
Round2(t) == RoundHalfEven(t * Hundredths, TicksPerSecond)

\* str.strip(): leading and trailing whitespace removed.
RECURSIVE StripLeft(_)
StripLeft(s) == IF s # <<>> /\ Head(s) = " " THEN StripLeft(Tail(s)) ELSE s

RECURSIVE StripRight(_)
StripRight(s) ==
    IF s # <<>> /\ s[Len(s)] = " " THEN StripRight(SubSeq(s, 1, Len(s) - 1)) ELSE s

Strip(s) == StripRight(StripLeft(s))

\* ' '.join(texts)
RECURSIVE Join(_)
Join(texts) ==
    IF texts = <<>> THEN <<>>
    ELSE IF Len(texts) = 1 THEN texts[1]
    ELSE texts[1] \o <<" ">> \o Join(Tail(texts))

\* --------------------------------------------------------- create_segments

\* transcription.get('duration', 0)
Duration(t) == IF t.has_duration THEN t.duration ELSE 0

\* A count without the extra segment at an exact multiple (the ceiling).
TotalSegmentsCeiling(total_duration, d) ==
    IF total_duration % d = 0
    THEN TruncDiv(total_duration, d)
    ELSE TruncDiv(total_duration, d) + 1

\* total_segments = int(total_duration / segment_duration) + 1
TotalSegments(total_duration, d) == TruncDiv(total_duration, d) + 1

\* start_time = i * segment_duration
StartTime(i, d) == i * d

\* An end that is not clamped to total_duration.
EndTimeUnclamped(i, d, total_duration) == (i + 1) * d

\* end_time = min((i + 1) * segment_duration, total_duration)
EndTime(i, d, total_duration) == Min((i + 1) * d, total_duration)

\* Bucketing on the word's end time.
InSegmentByEnd(word, start_time, end_time) ==
    word.end >= start_time /\ word.end < end_time

\* A closed window: the end boundary belongs to the segment too.
InSegmentClosed(word, start_time, end_time) ==
    word.start >= start_time /\ word.start <= end_time

\* A window open at its start: the start boundary belongs to no segment.
InSegmentOpen(word, start_time, end_time) ==
    word.start > start_time /\ word.start < end_time

\* word['start'] >= start_time and word['start'] < end_time
InSegment(word, start_time, end_time) ==
    word.start >= start_time /\ word.start < end_time

\* The words of the transcript that fall in the segment, [] without 'words'.
WordsInSegment(t, start_time, end_time) ==
    IF t.has_words
    THEN SelectSeq(t.words, LAMBDA w : InSegment(w, start_time, end_time))
    ELSE <<>>

\* ' '.join([w['word'] for w in words_in_segment]).strip()
LyricsText(words_in_segment) ==
    Strip(Join([k \in DOMAIN words_in_segment |-> words_in_segment[k].word]))

\* has_lyrics off by one.
HasLyricsOffByOne(words_in_segment) == Len(words_in_segment) > 1

\* len(words_in_segment) > 0
HasLyrics(words_in_segment) == Len(words_in_segment) > 0

\* The dictionary appended for segment i.
MakeSegment(i, t, d) ==
    LET start_time == StartTime(i, d)
        end_time == EndTime(i, d, Duration(t))
        words_in_segment == WordsInSegment(t, start_time, end_time)
    IN  [segment_id |-> i,
         start_time |-> Round2(start_time),
         end_time   |-> Round2(end_time),
         duration   |-> Round2(end_time - start_time),
         has_lyrics |-> HasLyrics(words_in_segment),
         lyrics     |-> LyricsText(words_in_segment),
         word_count |-> Len(words_in_segment),
         words      |-> words_in_segment]

\* create_segments(transcription, segment_duration): the list it returns, or
\* ZeroDivisionError raised by total_duration / segment_duration.
\* range(n) is empty for n <= 0.
create_segments(t, d) ==
    IF d = 0
    THEN [raised |-> TRUE, segments |-> <<>>]
    ELSE LET total_segments == TotalSegments(Duration(t), d)
             n == IF total_segments > 0 THEN total_segments ELSE 0
         IN  [raised |-> FALSE,
              segments |-> [k \in 1..n |-> MakeSegment(k - 1, t, d)]]

\* ------------------------------------------------- the segmenter's inputs

Texts == {<<"a">>, <<" ", "b">>}

Words ==
    {[word |-> x, start |-> s, end |-> s + l] :
        x \in Texts, s \in 0..MaxT, l \in {0, MaxWordLen}}

WordLists == UNION {[1..n -> Words] : n \in 0..MaxWords}

\* A transcript: the upstream JSON, whose 'duration' and 'words' keys may be
\* missing.
Transcripts ==
    {[has_duration |-> TRUE, duration |-> t, has_words |-> TRUE, words |-> ws] :
        t \in 0..MaxT, ws \in WordLists}
    \cup {[has_duration |-> TRUE, duration |-> t, has_words |-> FALSE, words |-> <<>>] :
        t \in 0..MaxT}
    \cup {[has_duration |-> FALSE, duration |-> 0, has_words |-> TRUE, words |-> ws] :
        ws \in WordLists}

\* ------------------------------------------------------------ the requests

Reqs == 1..NumReqs

\* Names tempfile can give a file: always one more than the requests.
Names == 1..(NumReqs + 1)
NoPath == 0

\* File contents: a payload (identified by a number >= 1), an empty file, or
\* no file of that name.
Absent == -1
EmptyFile == 0
Payloads == 1..NumReqs

Routes == {"process-audio", "process-audio-base64"}

\* An HTTP request to one of the two POST routes.  has_audio: the 'audio'
\* file field (multipart), or a JSON body with the 'audio_data' key (base64).
\* b64_ok: base64.b64decode accepts audio_data.  seg_param: the
\* segment_duration field is "absent", "bad" (float() rejects it) or "num"
\* (float() gives seg_value ticks).
MakeRequest(route, has_audio, b64_ok, seg_param, seg_value, audio) ==
    [route |-> route, has_audio |-> has_audio, b64_ok |-> b64_ok,
     seg_param |-> seg_param, seg_value |-> seg_value, audio |-> audio]

NoRequest == MakeRequest("none", FALSE, TRUE, "absent", 0, EmptyFile)

SegParams ==
    {<<"absent", 0>>, <<"bad", 0>>} \cup {<<"num", v>> : v \in (-MaxReqSeg)..MaxReqSeg}

AllRequests ==
    {MakeRequest("process-audio", h, TRUE, sp[1], sp[2], a) :
        h \in BOOLEAN, sp \in SegParams, a \in Payloads}
    \cup {MakeRequest("process-audio-base64", h, b, sp[1], sp[2], a) :
        h \in BOOLEAN, b \in BOOLEAN, sp \in SegParams, a \in Payloads}

NoTranscript == [has_duration |-> FALSE, duration |-> 0, has_words |-> FALSE, words |-> <<>>]

\* What the transcription service does with one call: answers 200 with a
\* JSON body, answers another status, or the call raises (timeout, network,
\* a body that is not JSON).
MakeAnswer(kind, body) == [kind |-> kind, body |-> body]
NoAnswer == MakeAnswer("none", NoTranscript)

AllAnswers ==
    {MakeAnswer("ok", t) : t \in {x \in Transcripts : Len(x.words) <= 1}}
    \cup {MakeAnswer("status", NoTranscript), MakeAnswer("raise", NoTranscript)}

\* The handler's locals.  error: str(e) of the exception in flight, "" if none.
NoFrame ==
    [segment_duration |-> 0, temp_path |-> NoPath, transcription |-> NoTranscript,
     segments |-> <<>>, segmented |-> FALSE, error |-> ""]

MakeResponse(status, success, error, total_duration, segs) ==
    [status |-> status, success |-> success, error |-> error,
     total_duration |-> total_duration, segments |-> segs]

NoResponse == MakeResponse(0, FALSE, "", 0, <<>>)

\* jsonify({'success': False, 'error': msg}), status
ErrorResponse(status, msg) == MakeResponse(status, FALSE, msg, 0, <<>>)

\* jsonify({'success': True, 'total_duration': ..., 'segments': ...})
SuccessResponse(t, segs) == MakeResponse(200, TRUE, "", Duration(t), segs)

ReqInit ==
    /\ OPENAI_API_KEY = "sk-configured"
    /\ pc = [r \in Reqs |-> "idle"]
    /\ request = [r \in Reqs |-> NoRequest]
    /\ frame = [r \in Reqs |-> NoFrame]
    /\ upstream = [r \in Reqs |-> NoAnswer]
    /\ sent = [r \in Reqs |-> <<>>]
    /\ response = [r \in Reqs |-> NoResponse]
    /\ fs = [n \in Names |-> Absent]

\* float(request.form.get('segment_duration', 4)), when float() accepts it.
ParsedSegmentDuration(q) ==
    IF q.seg_param = "absent" THEN DefaultSegmentSeconds * TicksPerSecond ELSE q.seg_value

\* A request arrives on one of the two routes.
Receive(r, requests) ==
    /\ pc[r] = "idle"
    /\ \E q \in requests : request' = [request EXCEPT ![r] = q]
    /\ pc' = [pc EXCEPT ![r] = "handler"]
    /\ UNCHANGED <<OPENAI_API_KEY, frame, upstream, sent, response, fs>>

\* process_audio / process_audio_base64 up to the staging of the audio: the
\* 400 return when the audio is missing, b64decode (base64 route) and float().
\* An exception goes to the handler's except clause.
Handler(r) ==
    /\ pc[r] = "handler"
    /\ LET q == request[r]
       IN  IF ~q.has_audio
           THEN /\ response' = [response EXCEPT ![r] =
                        ErrorResponse(400,
                            IF q.route = "process-audio"
                            THEN "Aucun fichier audio fourni"
                            ELSE "Donnees audio manquantes")]
                /\ pc' = [pc EXCEPT ![r] = "done"]
                /\ UNCHANGED frame
           ELSE IF q.route = "process-audio-base64" /\ ~q.b64_ok
           THEN /\ frame' = [frame EXCEPT ![r].error = "Incorrect padding"]
                /\ pc' = [pc EXCEPT ![r] = "except"]
                /\ UNCHANGED response
           ELSE IF q.seg_param = "bad"
           THEN /\ frame' = [frame EXCEPT ![r].error = "could not convert string to float"]
                /\ pc' = [pc EXCEPT ![r] = "except"]
                /\ UNCHANGED response
           ELSE /\ frame' = [frame EXCEPT ![r].segment_duration = ParsedSegmentDuration(q)]
                /\ pc' = [pc EXCEPT ![r] = "mktemp"]
                /\ UNCHANGED response
    /\ UNCHANGED <<OPENAI_API_KEY, request, upstream, sent, fs>>

\* The names tempfile may pick: those no file has (the file is created with
\* O_EXCL).
FreeNamesAny(f) == Names

FreeNames(f) == {n \in Names : f[n] = Absent}

\* tempfile.NamedTemporaryFile(delete=False, suffix='.mp3'): a new, empty
\* file under a name no file has.
NamedTemporaryFile(r) ==
    /\ pc[r] = "mktemp"
    /\ \E n \in FreeNames(fs) :
          /\ fs' = [fs EXCEPT ![n] = EmptyFile]
          /\ frame' = [frame EXCEPT ![r].temp_path = n]
    /\ pc' = [pc EXCEPT ![r] = "stage"]
    /\ UNCHANGED <<OPENAI_API_KEY, request, upstream, sent, response>>

\* audio_file.save(temp_file.name) / temp_file.write(audio_data), inside the
\* with block and before the try: the payload is written and the handler
\* enters the try block.
StageWritten(r) ==
    /\ pc[r] = "stage"
    /\ fs' = [fs EXCEPT ![frame[r].temp_path] = request[r].audio]
    /\ pc' = [pc EXCEPT ![r] = "whisper"]
    /\ UNCHANGED <<OPENAI_API_KEY, request, frame, upstream, sent, response>>

\* The same write raising (disk full, I/O error): the with block closes the
\* file, which delete=False keeps, and the exception leaves the function
\* before the try/finally is entered.
StageFails(r) ==
    /\ pc[r] = "stage"
    /\ frame' = [frame EXCEPT ![r].error = "No space left on device"]
    /\ pc' = [pc EXCEPT ![r] = "except"]
    /\ UNCHANGED <<OPENAI_API_KEY, request, upstream, sent, response, fs>>

\* call_whisper(temp_path): opens the staged file, posts it once with the
\* API key and returns the JSON body of a 200 answer; raises on any other
\* status, when the call raises, and when the file cannot be opened.
CallWhisper(r, answers) ==
    /\ pc[r] = "whisper"
    /\ LET content == fs[frame[r].temp_path]
       IN  IF content = Absent
           THEN /\ frame' = [frame EXCEPT ![r].error = "No such file or directory"]
                /\ pc' = [pc EXCEPT ![r] = "finally"]
                /\ UNCHANGED <<upstream, sent>>
           ELSE \E a \in answers :
                /\ sent' = [sent EXCEPT ![r] = Append(@, content)]
                /\ upstream' = [upstream EXCEPT ![r] = a]
                /\ IF a.kind = "ok"
                   THEN /\ frame' = [frame EXCEPT ![r].transcription = a.body]
                        /\ pc' = [pc EXCEPT ![r] = "segment"]
                   ELSE /\ frame' = [frame EXCEPT ![r].error =
                                IF a.kind = "status" THEN "Erreur Whisper" ELSE "Read timed out"]
                        /\ pc' = [pc EXCEPT ![r] = "finally"]
    /\ UNCHANGED <<OPENAI_API_KEY, request, response, fs>>

\* segments = create_segments(transcription, segment_duration), in the try.
Segment(r) ==
    /\ pc[r] = "segment"
    /\ LET res == create_segments(frame[r].transcription, frame[r].segment_duration)
       IN  frame' = [frame EXCEPT
                ![r].segments = res.segments,
                ![r].segmented = ~res.raised,
                ![r].error = IF res.raised THEN "float division by zero" ELSE ""]
    /\ pc' = [pc EXCEPT ![r] = "finally"]
    /\ UNCHANGED <<OPENAI_API_KEY, request, upstream, sent, response, fs>>

\* finally: if os.path.exists(temp_path): os.unlink(temp_path); then the
\* return value or the exception goes on.
Finally(r) ==
    /\ pc[r] = "finally"
    /\ fs' = [fs EXCEPT ![frame[r].temp_path] = Absent]
    /\ pc' = [pc EXCEPT ![r] = IF frame[r].error = "" THEN "return" ELSE "except"]
    /\ UNCHANGED <<OPENAI_API_KEY, request, frame, upstream, sent, response>>

\* return jsonify({'success': True, ...}) with status 200.
Return(r) ==
    /\ pc[r] = "return"
    /\ response' = [response EXCEPT ![r] =
            SuccessResponse(frame[r].transcription, frame[r].segments)]
    /\ pc' = [pc EXCEPT ![r] = "done"]
    /\ UNCHANGED <<OPENAI_API_KEY, request, frame, upstream, sent, fs>>

\* except Exception as e: return jsonify({'success': False, 'error': str(e)}), 500
Except(r) ==
    /\ pc[r] = "except"
    /\ response' = [response EXCEPT ![r] = ErrorResponse(500, frame[r].error)]
    /\ pc' = [pc EXCEPT ![r] = "done"]
    /\ UNCHANGED <<OPENAI_API_KEY, request, frame, upstream, sent, fs>>

\* ------------------------------------------------ the specifications

NoSegments == <<>>

\* The segmenter alone: every transcript and width of the bounds, then the
\* call.  No request is served.
SegInit ==
    /\ transcription \in Transcripts
    /\ segment_duration \in 1..MaxSeg
    /\ segments = NoSegments
    /\ segPc = "call"
    /\ ReqInit

\* The call create_segments(transcription, segment_duration), d > 0.
CreateSegments ==
    /\ segPc = "call"
    /\ segments' = create_segments(transcription, segment_duration).segments
    /\ segPc' = "returned"
    /\ UNCHANGED <<transcription, segment_duration, reqVars>>

SegNext == CreateSegments

SegSpec == SegInit /\ [][SegNext]_vars

\* The service: no request yet, no temporary file.
Init ==
    /\ transcription = NoTranscript
    /\ segment_duration = DefaultSegmentSeconds * TicksPerSecond
    /\ segments = NoSegments
    /\ segPc = "call"
    /\ ReqInit

\* One request, of any kind, served from arrival to response.
Next ==
    \/ Receive(1, AllRequests) /\ UNCHANGED segVars
    \/ Handler(1) /\ UNCHANGED segVars
    \/ NamedTemporaryFile(1) /\ UNCHANGED segVars
    \/ StageWritten(1) /\ UNCHANGED segVars
    \/ StageFails(1) /\ UNCHANGED segVars
    \/ CallWhisper(1, AllAnswers) /\ UNCHANGED segVars
    \/ Segment(1) /\ UNCHANGED segVars
    \/ Finally(1) /\ UNCHANGED segVars
    \/ Return(1) /\ UNCHANGED segVars
    \/ Except(1) /\ UNCHANGED segVars

Spec == Init /\ [][Next]_vars

\* The requests of ConcSpec: on either route, with or without the audio, each
\* with a payload of its own; one that has its audio stages a file and calls
\* the service.
ConcRequests(r) ==
    {MakeRequest(route, h, TRUE, "num", 1, r) : route \in Routes, h \in BOOLEAN}

ConcAnswers ==
    {MakeAnswer("ok", [has_duration |-> TRUE, duration |-> 1, has_words |-> TRUE,
                       words |-> <<[word |-> <<"a">>, start |-> 0, end |-> 1]>>]),
     MakeAnswer("status", NoTranscript)}

\* NumReqs requests served concurrently (one thread each), their steps
\* interleaved in any order.
ConcNext ==
    \E r \in Reqs :
        \/ Receive(r, ConcRequests(r)) /\ UNCHANGED segVars
        \/ Handler(r) /\ UNCHANGED segVars
        \/ NamedTemporaryFile(r) /\ UNCHANGED segVars
        \/ StageWritten(r) /\ UNCHANGED segVars
        \/ StageFails(r) /\ UNCHANGED segVars
        \/ CallWhisper(r, ConcAnswers) /\ UNCHANGED segVars
        \/ Segment(r) /\ UNCHANGED segVars
        \/ Finally(r) /\ UNCHANGED segVars
        \/ Return(r) /\ UNCHANGED segVars
        \/ Except(r) /\ UNCHANGED segVars

ConcSpec == Init /\ [][ConcNext]_vars

\* ------------------------------------------- the segmenter's claims (SegSpec)

Returned == segPc = "returned"

\* The arguments of the call, and the half-open window of segment k (k >= 0)
\* as the specification writes it.
Total == Duration(transcription)
D == segment_duration
SourceWords == IF transcription.has_words THEN transcription.words ELSE <<>>
WindowLo(k) == k * D
WindowHi(k) == IF (k + 1) * D <= Total THEN (k + 1) * D ELSE Total
InWindow(w, k) == WindowLo(k) <= w.start /\ w.start < WindowHi(k)
ExpectedCount == (Total \div D) + 1

\* The segments (1-based positions) whose words list holds w.
Holders(w) == {k \in DOMAIN segments : w \in Range(segments[k].words)}

RECURSIVE SumWordCount(_)
SumWordCount(segs) ==
    IF segs = <<>> THEN 0 ELSE Head(segs).word_count + SumWordCount(Tail(segs))

RECURSIVE ConcatWords(_)
ConcatWords(segs) ==
    IF segs = <<>> THEN <<>> ELSE Head(segs).words \o ConcatWords(Tail(segs))

TextsOf(ws) == [k \in DOMAIN ws |-> ws[k].word]

InRangeWords == SelectSeq(SourceWords, LAMBDA w : 0 <= w.start /\ w.start < Total)

SortedByStart(ws) ==
    \A i, j \in DOMAIN ws : i < j => ws[i].start <= ws[j].start

\* a is b with some elements left out, the others in b's order.
RECURSIVE IsSubseq(_, _)
IsSubseq(a, b) ==
    IF a = <<>> THEN TRUE
    ELSE IF b = <<>> THEN FALSE
    ELSE \/ (Head(a) = Head(b) /\ IsSubseq(Tail(a), Tail(b)))
         \/ IsSubseq(a, Tail(b))

TimeRanges(segs) ==
    [k \in DOMAIN segs |->
        <<segs[k].segment_id, segs[k].start_time, segs[k].end_time, segs[k].duration>>]

\* C1: for segment_duration > 0 and total_duration >= 0 create_segments
\* returns exactly floor(total_duration / segment_duration) + 1 segments with
\* segment_id 0, 1, ..., n-1 in that order; when total_duration is an exact
\* multiple of segment_duration the last segment has zero width.
C1_SegmentCount ==
    Returned =>
        /\ Len(segments) = ExpectedCount
        /\ \A k \in DOMAIN segments : segments[k].segment_id = k - 1
        /\ Total % D = 0 =>
              LET last == segments[Len(segments)]
              IN  last.start_time = last.end_time /\ last.duration = 0

\* C1's case: a positive duration that is an exact multiple of the width.
C1_Witness ==
    /\ Returned
    /\ Total > 0 /\ Total % D = 0
    /\ Len(segments) = (Total \div D) + 1
    /\ segments[Len(segments)].duration = 0

\* C2 as stated: the returned segments tile [0, total_duration): segment 0
\* starts at 0, each start equals the previous end, the last segment ends at
\* total_duration, and every segment has start <= end and
\* duration = end - start <= segment_duration.
C2_Original ==
    Returned =>
        LET n == Len(segments)
        IN  /\ n >= 1
            /\ segments[1].start_time = 0
            /\ \A k \in 2..n : segments[k].start_time = segments[k - 1].end_time
            /\ segments[n].end_time * TicksPerSecond = Total * Hundredths
            /\ \A k \in 1..n :
                  /\ segments[k].start_time <= segments[k].end_time
                  /\ segments[k].duration = segments[k].end_time - segments[k].start_time
                  /\ segments[k].duration * TicksPerSecond <= D * Hundredths

\* C2 amended: the returned fields are the tiling's values rounded to two
\* decimals.  start_time = round(i * d, 2), end_time = round(min((i+1) * d,
\* total), 2); segment 0 starts at 0, each start_time equals the previous
\* end_time, the last end_time is round(total_duration, 2); start_time <=
\* end_time; duration = round(end - start, 2) of the unrounded values, which
\* is within 0.01 of end_time - start_time and at most round(d, 2).
C2_TilingRounded ==
    Returned =>
        LET n == Len(segments)
        IN  /\ n >= 1
            /\ segments[1].start_time = 0
            /\ \A k \in 2..n : segments[k].start_time = segments[k - 1].end_time
            /\ segments[n].end_time = Round2(Total)
            /\ \A k \in 1..n :
                  LET s == segments[k]
                  IN  /\ s.start_time = Round2(WindowLo(k - 1))
                      /\ s.end_time = Round2(WindowHi(k - 1))
                      /\ s.start_time <= s.end_time
                      /\ s.duration = Round2(WindowHi(k - 1) - WindowLo(k - 1))
                      /\ Abs(s.duration - (s.end_time - s.start_time)) <= 1
                      /\ 0 <= s.duration /\ s.duration <= Round2(D)

\* C2's case: a tiling of several segments where rounding shows, the duration
\* field differing from end_time - start_time.
C2_Witness ==
    /\ Returned
    /\ Len(segments) >= 3
    /\ \E k \in DOMAIN segments :
          segments[k].duration # segments[k].end_time - segments[k].start_time

\* C3 as stated: every word of transcription['words'] is in exactly one
\* segment's words list, the segment with start_time <= word.start < end_time.
C3_Original ==
    (Returned /\ transcription.has_words) =>
        \A w \in Range(SourceWords) :
            /\ Cardinality(Holders(w)) = 1
            /\ Holders(w) = {k \in 1..ExpectedCount : InWindow(w, k - 1)}

\* C3 amended: every word is in at most one segment's words list, chosen by
\* its start time only: the segment with start_time <= word.start < end_time.
\* There is such a segment exactly when 0 <= word.start < total_duration; a
\* word that starts at or after total_duration is in no segment.  The
\* word_counts add up to the number of words that start in [0, total).
C3_AtMostOneSegment ==
    (Returned /\ transcription.has_words) =>
        /\ \A w \in Range(SourceWords) :
              /\ Holders(w) = {k \in 1..ExpectedCount : InWindow(w, k - 1)}
              /\ Cardinality(Holders(w)) <= 1
              /\ Cardinality(Holders(w)) = 1 <=> (0 <= w.start /\ w.start < Total)
        /\ SumWordCount(segments) = Len(InRangeWords)

\* C3's case: one word that starts in a segment and ends after it, and one
\* word that starts at or after total_duration.
C3_Witness ==
    /\ Returned /\ transcription.has_words
    /\ \E w \in Range(SourceWords) :
          \E k \in Holders(w) : k >= 2 /\ w.end >= WindowHi(k - 1)
    /\ \E w \in Range(SourceWords) : w.start >= Total /\ Holders(w) = {}

\* C4 as stated: a word whose start equals a boundary k * segment_duration,
\* k >= 1, up to and including total_duration, is in segment k and not in
\* segment k-1.
C4_Original ==
    (Returned /\ transcription.has_words) =>
        \A w \in Range(SourceWords) : \A k \in 1..MaxT :
            (w.start = k * D /\ k * D <= Total) =>
                /\ k + 1 \in DOMAIN segments
                /\ w \in Range(segments[k + 1].words)
                /\ w \notin Range(segments[k].words)

\* C4 amended: a word whose start equals a boundary k * segment_duration,
\* k >= 1, below total_duration is in segment k and not in segment k-1; a
\* word that starts exactly at total_duration is in no segment (neither the
\* zero-width segment k nor segment k-1).
C4_BoundaryLater ==
    (Returned /\ transcription.has_words) =>
        \A w \in Range(SourceWords) : \A k \in 1..MaxT :
            /\ (w.start = k * D /\ k * D < Total) =>
                  /\ k + 1 \in DOMAIN segments
                  /\ w \in Range(segments[k + 1].words)
                  /\ w \notin Range(segments[k].words)
            /\ (w.start = k * D /\ k * D = Total) => Holders(w) = {}

\* C4's case: one word on an inner boundary, one word on the boundary that is
\* total_duration.
C4_Witness ==
    /\ Returned /\ transcription.has_words
    /\ \E w \in Range(SourceWords) : \E k \in 1..MaxT :
          /\ w.start = k * D /\ k * D < Total
          /\ w \in Range(segments[k + 1].words)
    /\ \E w \in Range(SourceWords) : \E k \in 1..MaxT :
          /\ w.start = k * D /\ k * D = Total
          /\ Holders(w) = {}

\* C5 as stated: the word texts of the segments, concatenated in segment_id
\* order, are the transcript's word list in its original order.
C5_Original ==
    (Returned /\ transcription.has_words) =>
        TextsOf(ConcatWords(segments)) = TextsOf(SourceWords)

\* C5 amended: within each segment the words keep their order in the source
\* list; the concatenation holds each word that starts in [0, total_duration)
\* once and no other word; and when the source list is in non-decreasing
\* start order the concatenation is the source list with the words that start
\* at or after total_duration left out, in the original order.
C5_ConcatInRange ==
    (Returned /\ transcription.has_words) =>
        /\ \A k \in DOMAIN segments : IsSubseq(segments[k].words, SourceWords)
        /\ Len(ConcatWords(segments)) = Len(InRangeWords)
        /\ \A w \in Range(InRangeWords) : w \in Range(ConcatWords(segments))
        /\ SortedByStart(SourceWords) =>
              /\ ConcatWords(segments) = InRangeWords
              /\ TextsOf(ConcatWords(segments)) = TextsOf(InRangeWords)

\* C5's case: a sorted word list spread over two segments, reproduced whole.
C5_Witness ==
    /\ Returned /\ transcription.has_words
    /\ SortedByStart(SourceWords)
    /\ Len(SourceWords) >= 2
    /\ Cardinality({k \in DOMAIN segments : segments[k].has_lyrics}) >= 2
    /\ TextsOf(ConcatWords(segments)) = TextsOf(SourceWords)

\* No words to assign: the 'words' key is missing or its list is empty.
NoWords == ~transcription.has_words \/ transcription.words = <<>>

\* C9: without a 'words' key, or with an empty words list, every segment has
\* has_lyrics = false, word_count = 0, lyrics = "" and no words, and the
\* number and time ranges of the segments are those of any transcript of the
\* same duration with words.  In every segment has_lyrics is true exactly
\* when word_count > 0, and word_count is the length of the words list.
C9_NoWords ==
    Returned =>
        /\ \A k \in DOMAIN segments :
              /\ segments[k].has_lyrics <=> segments[k].word_count > 0
              /\ segments[k].word_count = Len(segments[k].words)
        /\ NoWords =>
              /\ \A k \in DOMAIN segments :
                    /\ ~segments[k].has_lyrics
                    /\ segments[k].word_count = 0
                    /\ segments[k].lyrics = <<>>
                    /\ segments[k].words = <<>>
              /\ \A ws \in WordLists :
                    LET withWords == [transcription EXCEPT !.has_words = TRUE, !.words = ws]
                    IN  TimeRanges(create_segments(withWords, D).segments)
                            = TimeRanges(segments)

\* C9's case: a transcript without the 'words' key, cut into several segments.
C9_Witness ==
    /\ Returned
    /\ ~transcription.has_words
    /\ Len(segments) >= 2
    /\ \A k \in DOMAIN segments : ~segments[k].has_lyrics /\ segments[k].lyrics = <<>>

\* ------------------------------------------------ the requests' claims (Spec)

Done(r) == pc[r] = "done"

\* The request asks for a segment_duration that float() reads as <= 0.
NonPositiveSegmentDuration(q) == q.seg_param = "num" /\ q.seg_value <= 0

\* C6: a request with segment_duration <= 0 ends in an invalid-argument
\* failure: the segmenter never returns a segment list and the HTTP response
\* is never a success response.
C6_NonPositiveRejected ==
    \A r \in Reqs :
        NonPositiveSegmentDuration(request[r]) =>
            /\ ~frame[r].segmented
            /\ Done(r) => (~response[r].success /\ response[r].status # 200)

\* C7: by the time the response is produced, on every exit path after the
\* temporary file was created, the file the request created is deleted.
C7_TempFileDeleted ==
    \A r \in Reqs :
        (Done(r) /\ frame[r].temp_path # NoPath) => fs[frame[r].temp_path] = Absent

\* The input C8 calls missing or invalid: no audio, or a segment_duration
\* that is not a number or not positive.
MissingOrInvalid(q) ==
    \/ ~q.has_audio
    \/ q.seg_param = "bad"
    \/ NonPositiveSegmentDuration(q)

\* C8: every request ends with exactly one of: 400 with success=false when
\* the input is missing or invalid, the upstream service never called; 500
\* with success=false and the error text when the upstream call or a later
\* step fails; 200 with success=true, total_duration and the complete
\* segment list otherwise.  Success only if the upstream call returned 200
\* and segmentation completed; at most one upstream call per request.
C8_Outcomes ==
    \A r \in Reqs :
        Done(r) =>
            LET q == request[r]
                resp == response[r]
            IN  /\ Len(sent[r]) <= 1
                /\ resp.status \in {200, 400, 500}
                /\ resp.status = 400 <=> MissingOrInvalid(q)
                /\ resp.status = 400 => (~resp.success /\ sent[r] = <<>>)
                /\ resp.status = 500 => (~resp.success /\ resp.error # "")
                /\ resp.status = 200 =>
                      /\ resp.success
                      /\ upstream[r].kind = "ok"
                      /\ frame[r].segmented
                      /\ resp.segments = frame[r].segments
                      /\ resp.total_duration = Duration(upstream[r].body)
                /\ resp.success => resp.status = 200

\* -------------------------------------------- the requests' claims (ConcSpec)

\* The request has a temporary file of its own: created, not yet cleaned up.
Holding(r) == pc[r] \in {"stage", "whisper", "segment", "finally"}

\* The response a request gets when nothing but its own input, the fate of
\* its own staging write and the answer to its own upstream call decide it.
OwnResponse(r) ==
    LET q == request[r]
        a == upstream[r]
        d == ParsedSegmentDuration(q)
    IN  IF ~q.has_audio
        THEN ErrorResponse(400, IF q.route = "process-audio"
                                THEN "Aucun fichier audio fourni"
                                ELSE "Donnees audio manquantes")
        ELSE IF q.route = "process-audio-base64" /\ ~q.b64_ok
        THEN ErrorResponse(500, "Incorrect padding")
        ELSE IF q.seg_param = "bad"
        THEN ErrorResponse(500, "could not convert string to float")
        ELSE IF a.kind = "none"
        THEN ErrorResponse(500, "No space left on device")
        ELSE IF a.kind = "status" THEN ErrorResponse(500, "Erreur Whisper")
        ELSE IF a.kind = "raise" THEN ErrorResponse(500, "Read timed out")
        ELSE IF d = 0 THEN ErrorResponse(500, "float division by zero")
        ELSE SuccessResponse(a.body, create_segments(a.body, d).segments)

\* C10: requests are handled independently.  Two in-flight requests never
\* hold the same temporary file; while a request uses its file the file is
\* there and holds that request's own payload (no other request overwrote
\* or deleted it); what a request posts upstream is its own payload, at most
\* once; its response is decided by its own input and the answer to its own
\* call; and the API key is never modified.
C10_Independent ==
    /\ OPENAI_API_KEY = "sk-configured"
    /\ \A r1, r2 \in Reqs :
          (r1 # r2 /\ Holding(r1) /\ Holding(r2)) =>
              frame[r1].temp_path # frame[r2].temp_path
    /\ \A r \in Reqs :
          /\ pc[r] = "stage" => fs[frame[r].temp_path] = EmptyFile
          /\ pc[r] \in {"whisper", "segment", "finally"} =>
                fs[frame[r].temp_path] = request[r].audio
          /\ Len(sent[r]) <= 1
          /\ \A k \in DOMAIN sent[r] : sent[r][k] = request[r].audio
          /\ Done(r) => response[r] = OwnResponse(r)

\* C10's case: two requests in flight at once, each past its upstream call
\* and about to clean up, their two files both present.
C10_Witness ==
    \E r1, r2 \in Reqs :
        /\ r1 # r2
        /\ pc[r1] = "finally" /\ pc[r2] = "finally"
        /\ sent[r1] # <<>> /\ sent[r2] # <<>>
        /\ fs[frame[r1].temp_path] = request[r1].audio
        /\ fs[frame[r2].temp_path] = request[r2].audio
        /\ request[r1].audio # request[r2].audio

====
